---- MODULE Spec2Model ----
(***************************************************************************)
(* filesplitter / dirsplitter: splitting a file into part files kept in a   *)
(* sibling directory with a config.ini descriptor, merging them back with   *)
(* a hash check, and the directory walkers that apply both in bulk.         *)
(*                                                                          *)
(* A string is modelled by its dot-separated segments ("a.txt" is           *)
(* <<"a", "txt">>, "" is <<"">>), a path by the sequence of its names below *)
(* the working directory (<<>> is "."), a file content by a sequence of     *)
(* bytes.                                                                   *)
(***************************************************************************)
EXTENDS Integers, Sequences, FiniteSets, TLC

\* ------------------------------------------------------------------ bounds
MaxLen == 2      \* longest source file, in bytes
MaxParts == 3    \* largest parts argument
MaxChunk == 2    \* largest chunk_size argument

Bytes == {0, 1}

RECURSIVE SeqsUpTo(_)
SeqsUpTo(n) ==
    IF n = 0 THEN {<<>>}
    ELSE LET shorter == SeqsUpTo(n - 1)
         IN  shorter \cup {Append(s, b) : s \in {t \in shorter : Len(t) = n - 1}, b \in Bytes}

Contents == SeqsUpTo(MaxLen)

\* ----------------------------------------------------------------- strings
Str(n) == <<ToString(n)>>
StrBool(b) == IF b THEN <<"True">> ELSE <<"False">>
Truthy(s) == s # <<"">>
ParseInt(s) == CHOOSE n \in 0..(MaxLen + MaxParts + 1) : Str(n) = s

ConfigName == <<"config", "ini">>
PartName(filename, part) == filename \o <<ToString(part), "prt">>

RECURSIVE LeadingEmpty(_)
LeadingEmpty(name) ==
    IF name # <<>> /\ Head(name) = "" THEN 1 + LeadingEmpty(Tail(name)) ELSE 0

Suffixes(name) ==
    IF name[Len(name)] = "" THEN <<>>
    ELSE LET stripped == SubSeq(name, LeadingEmpty(name) + 1, Len(name))
         IN  Tail(stripped)

Basename(name) == SubSeq(name, 1, Len(name) - Len(Suffixes(name)))

\* ------------------------------------------------------------------- paths
Root == <<>>
Parent(p) == IF p = Root THEN Root ELSE SubSeq(p, 1, Len(p) - 1)
NameOf(p) == p[Len(p)]

Put(f, k, v) == [x \in DOMAIN f \cup {k} |-> IF x = k THEN v ELSE f[x]]
Drop(f, k) == [x \in DOMAIN f \ {k} |-> f[x]]

\* ------------------------------------------------------- hashing and zlib
RECURSIVE compute_hash_acc(_, _)
compute_hash_acc(acc, bytes) ==
    IF bytes = <<>> THEN acc
    ELSE compute_hash_acc(acc * (Cardinality(Bytes) + 1) + Head(bytes) + 1, Tail(bytes))

compute_hash(bytes) == Str(compute_hash_acc(0, bytes))

RECURSIVE Sum(_)
Sum(bytes) == IF bytes = <<>> THEN 0 ELSE Head(bytes) + Sum(Tail(bytes))

ZHeader == 1
Adler(bytes) == Sum(bytes) % Cardinality(Bytes)
zlib_compress(bytes) == <<ZHeader>> \o bytes \o <<Adler(bytes)>>
zlib_valid(buffer) ==
    /\ Len(buffer) >= 2
    /\ buffer[1] = ZHeader
    /\ buffer[Len(buffer)] = Adler(SubSeq(buffer, 2, Len(buffer) - 1))
zlib_decompress(buffer) == SubSeq(buffer, 2, Len(buffer) - 1)

CeilDiv(a, b) == (a + b - 1) \div b

\* ------------------------------------------------------------------- state
VARIABLES
    dirs,        \* the directories below the working directory
    files,       \* path -> bytes, the regular files other than config.ini files
    inis,        \* path -> parsed configuration, the config.ini files
    pc,          \* where the running call stands ("idle": none is running)
    loc,         \* the running call's arguments and locals
    out,         \* what the call that just ended reported (read at pc = "done")
    made,        \* history: complete split directory -> the name and bytes it was
                 \* split from, and whether a part was altered since
    queue,       \* collect_dirs: its queue
    final_dirs,  \* collect_dirs: its result list
    todo,        \* the bulk caller's frame: merge_dir's directories still to merge,
                 \* split_dir's files still to split
    trail,       \* history of the walk: directories dequeued, enqueued, merged
    original     \* history: path -> bytes, the regular files as the first command
                 \* found them

fs == <<dirs, files, inis>>
walk == <<queue, final_dirs, todo, trail>>
vars == <<dirs, files, inis, pc, loc, out, made, queue, final_dirs, todo, trail, original>>

NoLoc == [op |-> "none"]
NoOut == [result |-> "none", verified |-> FALSE]
NoTodo == [caller |-> "none", rest |-> <<>>, remove |-> FALSE]
NoTrail == [dequeued |-> {}, enqueued |-> {}, listed |-> <<>>, merged |-> <<>>]

IsDir(p) == p = Root \/ p \in dirs
IsFile(p) == p \in DOMAIN files \/ p \in DOMAIN inis
Exists(p) == IsDir(p) \/ IsFile(p)
Children(d) == {p \in dirs \cup DOMAIN files \cup DOMAIN inis : p # Root /\ Parent(p) = d}

\* A call ends: by return ("Finish", "Rejected", "NotDir"), by exit(1)
\* ("HashFailed") or by an uncaught exception (the exception's name).
Ends(result) ==
    /\ pc' = "done"
    /\ out' = [out EXCEPT !.result = result]

\* ------------------------------------------------------------- split_file
SplitCall(filepath, parts, chunk_size, remove, compress) ==
    /\ pc = "idle"
    /\ pc' = "split_88"
    /\ loc' = [op |-> "split_file", filepath |-> filepath, parts |-> parts,
               chunk_size |-> chunk_size, remove |-> remove, compress |-> compress]
    /\ out' = NoOut
    /\ UNCHANGED <<fs, made, walk>>
    /\ UNCHANGED original

\* Lines 88-95 and 103: what stops the call before it plans anything.
SplitCheck(filepath, parts, chunk_size) ==
    IF parts = 0 /\ chunk_size = 0 THEN "Rejected"
    ELSE IF ~Exists(filepath) THEN "FileNotFoundError"
    ELSE IF IsDir(filepath) THEN "IsADirectoryError"
    ELSE "ok"

\* A chunk size rounded down instead of up.
ResolveChunkFloor(filesize, parts, chunk_size) ==
    IF parts > 0 THEN filesize \div parts ELSE chunk_size

\* Lines 109-112.
ResolveParts(filesize, parts, chunk_size) ==
    IF parts > 0 THEN parts ELSE CeilDiv(filesize, chunk_size)

ResolveChunk(filesize, parts, chunk_size) ==
    IF parts > 0 THEN CeilDiv(filesize, parts) ELSE chunk_size

\* Lines 97-98, 106-107, 117: the configuration before the parts are added.
SplitConfig(filename, filesize, filehash, compress, parts) ==
    [ORIGINAL |-> [filename |-> filename, size |-> Str(filesize), hash |-> filehash],
     OPERATION |-> [compress |-> StrBool(compress)],
     PARTS |-> [parts |-> Str(parts)]]

\* A pattern that matches the part files alone.
GlobParts(dirpath) ==
    {path \in Children(dirpath) : NameOf(path)[Len(NameOf(path))] = "prt"}

\* glob("*"), lines 232 and 121 of dirsplitter: the entries of a directory.
Glob(dirpath) == Children(dirpath)

\* remove_dir, lines 231-232: nothing to do unless dirpath is a directory.
EnterRemoveDir(dirpath, l, after) ==
    IF IsDir(dirpath)
    THEN /\ pc' = "remove_dir"
         /\ loc' = [l EXCEPT !.entries = Glob(dirpath), !.after = after]
    ELSE /\ pc' = after
         /\ loc' = l

SplitPlan ==
    /\ pc = "split_88"
    /\ LET check == SplitCheck(loc.filepath, loc.parts, loc.chunk_size)
       IN  IF check # "ok"
           THEN /\ Ends(check)
                /\ loc' = loc
           ELSE LET filename == NameOf(loc.filepath)
                    bytes == files[loc.filepath]
                    filesize == Len(bytes)
                    parts == ResolveParts(filesize, loc.parts, loc.chunk_size)
                    chunk_size == ResolveChunk(filesize, loc.parts, loc.chunk_size)
                    subdir == Append(Parent(loc.filepath), Basename(filename))
                    l == [op |-> "split_file", filepath |-> loc.filepath,
                          parts |-> parts, chunk_size |-> chunk_size,
                          remove |-> loc.remove, compress |-> loc.compress,
                          config |-> SplitConfig(filename, filesize, compute_hash(bytes),
                                                 loc.compress, parts),
                          subdir |-> subdir, dirpath |-> subdir, entries |-> {},
                          after |-> "split_122", part |-> 0,
                          given |-> [parts |-> loc.parts, chunk_size |-> loc.chunk_size],
                          stale |-> Cardinality(Children(subdir))]
                IN  /\ EnterRemoveDir(subdir, l, "split_122")
                    /\ out' = out
    /\ UNCHANGED <<fs, made, walk>>
    /\ UNCHANGED original

\* remove_dir, lines 232-233: the entries are unlinked in the order glob yields
\* them, which is the file system's; unlink of a directory raises.
RemoveDirUnlink ==
    /\ pc = "remove_dir"
    /\ \E path \in loc.entries :
          IF path \in dirs
          THEN /\ Ends("IsADirectoryError")
               /\ UNCHANGED <<fs, loc, made>>
          ELSE /\ files' = (IF path \in DOMAIN files THEN Drop(files, path) ELSE files)
               /\ inis' = (IF path \in DOMAIN inis THEN Drop(inis, path) ELSE inis)
               /\ loc' = [loc EXCEPT !.entries = @ \ {path}]
               /\ made' = (IF loc.dirpath \in DOMAIN made THEN Drop(made, loc.dirpath) ELSE made)
               /\ UNCHANGED <<dirs, pc, out>>
    /\ UNCHANGED walk
    /\ UNCHANGED original

\* remove_dir, line 234, and the return to the caller; rmdir raises when the
\* directory is not empty.
RemoveDirRmdir ==
    /\ pc = "remove_dir"
    /\ loc.entries = {}
    /\ IF Children(loc.dirpath) # {}
       THEN /\ Ends("OSError")
            /\ UNCHANGED <<dirs, made>>
       ELSE /\ dirs' = dirs \ {loc.dirpath}
            /\ made' = (IF loc.dirpath \in DOMAIN made THEN Drop(made, loc.dirpath) ELSE made)
            /\ pc' = loc.after
            /\ out' = out
    /\ UNCHANGED <<files, inis, loc, walk>>
    /\ UNCHANGED original

\* Lines 122 and 126: mkdir raises when the path exists; then the source is opened.
SplitMkdir ==
    /\ pc = "split_122"
    /\ IF Exists(loc.subdir)
       THEN /\ Ends("FileExistsError")
            /\ UNCHANGED dirs
       ELSE /\ dirs' = dirs \cup {loc.subdir}
            /\ IF ~(loc.filepath \in DOMAIN files)
               THEN Ends("FileNotFoundError")
               ELSE /\ pc' = (IF loc.parts > 0 THEN "split_127" ELSE "split_142")
                    /\ out' = out
    /\ UNCHANGED <<files, inis, loc, made, walk>>
    /\ UNCHANGED original

\* Line 128: the handle is read chunk_size bytes at a time, part after part, so
\* the read of part i starts at offset i * chunk_size or at the end of the file,
\* whichever comes first.
ReadChunk(bytes, part, chunk_size) ==
    LET from == part * chunk_size
        upto == IF from + chunk_size < Len(bytes) THEN from + chunk_size ELSE Len(bytes)
    IN  SubSeq(bytes, from + 1, upto)

\* Lines 129-130.
SplitPayload(chunk, compress) == IF compress THEN zlib_compress(chunk) ELSE chunk

\* Lines 127-138: one pass of the loop.
SplitWritePart ==
    /\ pc = "split_127"
    /\ LET chunk == ReadChunk(files[loc.filepath], loc.part, loc.chunk_size)
           part_filepath == Append(loc.subdir, PartName(NameOf(loc.filepath), loc.part))
       IN  /\ files' = Put(files, part_filepath, SplitPayload(chunk, loc.compress))
           /\ loc' = [loc EXCEPT !.part = @ + 1,
                                 !.config.PARTS = Put(@, ToString(loc.part), NameOf(part_filepath))]
    /\ pc' = (IF loc.part + 1 < loc.parts THEN "split_127" ELSE "split_142")
    /\ UNCHANGED <<dirs, inis, out, made, walk>>
    /\ UNCHANGED original

\* Lines 142-143.
SplitWriteConfig ==
    /\ pc = "split_142"
    /\ inis' = Put(inis, Append(loc.subdir, ConfigName), loc.config)
    /\ made' = Put(made, loc.subdir, [src |-> files[loc.filepath], name |-> NameOf(loc.filepath),
                                     tampered |-> FALSE])
    /\ IF loc.remove
       THEN pc' = "split_145" /\ out' = out
       ELSE Ends("Finish")
    /\ UNCHANGED <<dirs, files, loc, walk>>
    /\ UNCHANGED original

\* Lines 145-148.
SplitRemove ==
    /\ pc = "split_145"
    /\ files' = (IF loc.filepath \in DOMAIN files THEN Drop(files, loc.filepath) ELSE files)
    /\ Ends("Finish")
    /\ UNCHANGED <<dirs, inis, loc, made, walk>>
    /\ UNCHANGED original

\* ------------------------------------------------------------------ merge
MergeFrame(dirpath, remove) ==
    [op |-> "merge", dirpath |-> dirpath, remove |-> remove,
     origin |-> IF dirpath \in DOMAIN made
                THEN [split |-> TRUE, src |-> made[dirpath].src,
                      name |-> made[dirpath].name, tampered |-> made[dirpath].tampered]
                ELSE [split |-> FALSE, src |-> <<>>, name |-> <<>>, tampered |-> FALSE]]

MergeCall(dirpath, remove) ==
    /\ pc = "idle"
    /\ pc' = "merge_159"
    /\ loc' = MergeFrame(dirpath, remove)
    /\ out' = NoOut
    /\ UNCHANGED <<fs, made, walk>>
    /\ UNCHANGED original

\* A configuration that falls back on defaults when config.ini is missing.
ReadConfigDefault(dirpath) ==
    LET path == Append(dirpath, ConfigName)
    IN  IF path \in DOMAIN inis THEN inis[path]
        ELSE [ORIGINAL |-> [filename |-> <<"a", "txt">>, size |-> Str(0),
                            hash |-> compute_hash(<<>>)],
              OPERATION |-> [compress |-> StrBool(FALSE)],
              PARTS |-> [parts |-> Str(0)]]

\* config.read, line 170: a missing config.ini is skipped and leaves no section.
ReadConfig(dirpath) ==
    LET path == Append(dirpath, ConfigName)
    IN  IF path \in DOMAIN inis THEN inis[path] ELSE <<>>

\* Lines 164-171: what stops the call before it touches the target.
MergeCheck(dirpath) ==
    IF ~IsDir(dirpath) THEN "NotDir"
    ELSE IF ~("ORIGINAL" \in DOMAIN ReadConfig(dirpath)) THEN "KeyError"
    ELSE "ok"

MergeRead ==
    /\ pc = "merge_159"
    /\ LET check == MergeCheck(loc.dirpath)
       IN  IF check # "ok"
           THEN /\ Ends(check)
                /\ loc' = loc
           ELSE LET config == ReadConfig(loc.dirpath)
                IN  /\ pc' = "merge_173"
                    /\ out' = out
                    /\ loc' = [op |-> "merge", dirpath |-> loc.dirpath, remove |-> loc.remove,
                               origin |-> loc.origin, config |-> config,
                               filepath |-> Append(Parent(loc.dirpath), config.ORIGINAL.filename),
                               paths |-> <<>>, entries |-> {}, after |-> "merge_202"]
    /\ UNCHANGED <<fs, made, walk>>
    /\ UNCHANGED original

\* get_sorted_files, lines 243-249: the paths under keys 0 .. parts-1.
get_sorted_files(dirpath, config) ==
    LET parts == ParseInt(config.PARTS.parts)
    IN  [part \in 1..parts |-> Append(dirpath, config.PARTS[ToString(part - 1)])]

\* Lines 173-174: an existing file at the target path is unlinked.
MergeClearTarget(filepath) ==
    IF filepath \in DOMAIN files THEN Drop(files, filepath) ELSE files

\* Lines 173-178.
MergeUnlink ==
    /\ pc = "merge_173"
    /\ files' = MergeClearTarget(loc.filepath)
    /\ LET paths == get_sorted_files(loc.dirpath, loc.config)
       IN  /\ loc' = [loc EXCEPT !.paths = paths]
           /\ pc' = (IF paths = <<>> THEN "merge_187" ELSE "merge_178")
    /\ UNCHANGED <<dirs, inis, out, made, walk>>
    /\ UNCHANGED original

\* Lines 177 and 181: the option is read back as a string and tested for truth.
MergeDecompresses(config) == Truthy(config.OPERATION.compress)

\* Lines 178-184: one pass of the loop.
MergePart ==
    /\ pc = "merge_178"
    /\ LET path == Head(loc.paths)
       IN  IF ~(path \in DOMAIN files)
           THEN /\ Ends("FileNotFoundError")
                /\ UNCHANGED <<files, loc>>
           ELSE IF MergeDecompresses(loc.config) /\ ~zlib_valid(files[path])
           THEN /\ Ends("zlib.error")
                /\ UNCHANGED <<files, loc>>
           ELSE LET buffer == IF MergeDecompresses(loc.config)
                              THEN zlib_decompress(files[path])
                              ELSE files[path]
                    before == IF loc.filepath \in DOMAIN files THEN files[loc.filepath] ELSE <<>>
                IN  /\ files' = Put(files, loc.filepath, before \o buffer)
                    /\ loc' = [loc EXCEPT !.paths = Tail(@)]
                    /\ pc' = (IF Tail(loc.paths) = <<>> THEN "merge_187" ELSE "merge_178")
                    /\ out' = out
    /\ UNCHANGED <<dirs, inis, made, walk>>
    /\ UNCHANGED original

\* Lines 187-201: the target is created when no part was appended, then its hash
\* is compared; a mismatch ends the process with exit(1).
MergeVerify ==
    /\ pc = "merge_187"
    /\ LET target == IF IsFile(loc.filepath) THEN files ELSE Put(files, loc.filepath, <<>>)
       IN  /\ files' = target
           /\ IF compute_hash(target[loc.filepath]) = loc.config.ORIGINAL.hash
              THEN /\ out' = [out EXCEPT !.verified = TRUE]
                   /\ IF loc.remove
                      THEN EnterRemoveDir(loc.dirpath, loc, "merge_202")
                      ELSE pc' = "merge_202" /\ loc' = loc
              ELSE /\ pc' = "done"
                   /\ out' = [out EXCEPT !.result = "HashFailed"]
                   /\ loc' = loc
    /\ UNCHANGED <<dirs, inis, made, walk>>
    /\ UNCHANGED original

\* Line 202.
MergeFinish ==
    /\ pc = "merge_202"
    /\ Ends("Finish")
    /\ UNCHANGED <<fs, loc, made, walk>>
    /\ UNCHANGED original

\* ------------------------------------------------------------ environment
\* The bytes of one part file of a complete split directory are altered.
Tamper(path, bytes) ==
    /\ pc = "idle"
    /\ path \in DOMAIN files
    /\ Parent(path) \in DOMAIN made
    /\ ~made[Parent(path)].tampered
    /\ bytes # files[path]
    /\ files' = Put(files, path, bytes)
    /\ made' = [made EXCEPT ![Parent(path)].tampered = TRUE]
    /\ UNCHANGED <<dirs, inis, pc, loc, out, walk>>
    /\ UNCHANGED original

\* What a call reports when it returns to its caller; anything else (exit(1), an
\* exception) unwinds the callers too and ends the process.
Returns == {"Finish", "Rejected", "NotDir"}

\* The process has ended, or the call returned to the command line: the next
\* command can be run.
Return ==
    /\ pc = "done"
    /\ todo.caller = "none" \/ loc.op = todo.caller \/ out.result \notin Returns
    /\ pc' = "idle"
    /\ loc' = NoLoc
    /\ out' = NoOut
    /\ todo' = NoTodo
    /\ queue' = <<>>
    /\ final_dirs' = <<>>
    /\ trail' = NoTrail
    /\ UNCHANGED <<fs, made>>
    /\ UNCHANGED original

\* ------------------------------------------------------------ collect_dirs
Dot == <<"", "">>
DotDot == <<"", "", "">>

\* Path.resolve: the path made absolute with its "." and ".." names resolved (the
\* modelled tree holds no symbolic link).
RECURSIVE Resolve(_)
Resolve(p) ==
    IF p = <<>> THEN <<>>
    ELSE LET front == Resolve(SubSeq(p, 1, Len(p) - 1))
             last == p[Len(p)]
         IN  IF last = Dot THEN front
             ELSE IF last = DotDot THEN Parent(front)
             ELSE Append(front, last)

\* The ignore entries compared as they are spelled.
IgnorePathsUnresolved(ignore_dirs) == ignore_dirs

\* Line 109.
IgnorePaths(ignore_dirs) == {Resolve(dirname) : dirname \in ignore_dirs}

\* The orders in which glob can yield the members of a set.
Orders(S) == {order \in [1..Cardinality(S) -> S] :
                 \A i, j \in 1..Cardinality(S) : i # j => order[i] # order[j]}

CollectFrame(dirpath, ignore_dirs) ==
    [op |-> "collect_dirs", dirpath |-> dirpath, ignore_dirs |-> ignore_dirs,
     ignore_paths |-> IgnorePaths(ignore_dirs)]

\* Lines 105-109.
CollectCall(dirpath, ignore_dirs) ==
    /\ pc = "idle"
    /\ pc' = "collect_110"
    /\ loc' = CollectFrame(dirpath, ignore_dirs)
    /\ out' = NoOut
    /\ queue' = <<dirpath>>
    /\ final_dirs' = <<>>
    /\ trail' = [NoTrail EXCEPT !.enqueued = {dirpath}]
    /\ UNCHANGED <<fs, made, todo>>
    /\ UNCHANGED original

\* Lines 112-113.
Ignored(cur_dir, ignore_paths) == Resolve(cur_dir) \in ignore_paths

\* Line 116.
HasConfig(cur_dir) == Exists(Append(cur_dir, ConfigName))

\* Lines 121-125.
Subdirs(cur_dir) == {child \in Glob(cur_dir) : IsDir(child)}

\* Lines 110-127: one pass of the loop.
CollectStep ==
    /\ pc = "collect_110"
    /\ queue # <<>>
    /\ LET cur_dir == Head(queue)
       IN  /\ trail' = [trail EXCEPT !.dequeued = @ \cup {cur_dir},
                                     !.enqueued = @ \cup
                                         (IF Ignored(cur_dir, loc.ignore_paths) \/ HasConfig(cur_dir)
                                          THEN {} ELSE Subdirs(cur_dir))]
           /\ IF Ignored(cur_dir, loc.ignore_paths)
              THEN queue' = Tail(queue) /\ final_dirs' = final_dirs
              ELSE IF HasConfig(cur_dir)
              THEN queue' = Tail(queue) /\ final_dirs' = Append(final_dirs, cur_dir)
              ELSE /\ \E order \in Orders(Subdirs(cur_dir)) : queue' = Tail(queue) \o order
                   /\ final_dirs' = final_dirs
    /\ UNCHANGED <<fs, pc, loc, out, made, todo>>
    /\ UNCHANGED original

\* Line 129, and merge_dir's line 214 when merge_dir is the caller.
CollectReturn ==
    /\ pc = "collect_110"
    /\ queue = <<>>
    /\ IF todo.caller = "merge_dir"
       THEN /\ pc' = "merge_dir_215"
            /\ todo' = [todo EXCEPT !.rest = final_dirs]
            /\ trail' = [trail EXCEPT !.listed = final_dirs]
            /\ out' = out
       ELSE /\ Ends("Finish")
            /\ UNCHANGED <<todo, trail>>
    /\ UNCHANGED <<fs, loc, made, queue, final_dirs>>
    /\ UNCHANGED original

\* --------------------------------------------------------------- merge_dir
MergeDirCall(dirpath, ignore_dirs, remove) ==
    /\ pc = "idle"
    /\ pc' = "merge_dir_210"
    /\ loc' = [op |-> "merge_dir", dirpath |-> dirpath, ignore_dirs |-> ignore_dirs,
               remove |-> remove]
    /\ out' = NoOut
    /\ UNCHANGED <<fs, made, walk>>
    /\ UNCHANGED original

\* Lines 210-214.
MergeDirStart ==
    /\ pc = "merge_dir_210"
    /\ IF ~IsDir(loc.dirpath)
       THEN /\ Ends("Exit")
            /\ UNCHANGED <<loc, queue, final_dirs, todo, trail>>
       ELSE /\ pc' = "collect_110"
            /\ out' = out
            /\ loc' = CollectFrame(loc.dirpath, loc.ignore_dirs)
            /\ queue' = <<loc.dirpath>>
            /\ final_dirs' = <<>>
            /\ todo' = [caller |-> "merge_dir", rest |-> <<>>, remove |-> loc.remove]
            /\ trail' = [NoTrail EXCEPT !.enqueued = {loc.dirpath}]
    /\ UNCHANGED <<fs, made>>
    /\ UNCHANGED original

\* Lines 215-216: merge is called on the next directory of the list.
MergeDirNext ==
    /\ pc = "merge_dir_215"
    /\ IF todo.rest = <<>>
       THEN /\ Ends("Finish")
            /\ loc' = [op |-> "merge_dir"]
            /\ UNCHANGED <<todo, trail>>
       ELSE /\ pc' = "merge_159"
            /\ out' = NoOut
            /\ loc' = MergeFrame(Head(todo.rest), todo.remove)
            /\ todo' = [todo EXCEPT !.rest = Tail(@)]
            /\ trail' = [trail EXCEPT !.merged = Append(@, Head(todo.rest))]
    /\ UNCHANGED <<fs, made, queue, final_dirs>>
    /\ UNCHANGED original

\* Line 217: merge returned, the loop goes on.
MergeDirResume ==
    /\ pc = "done"
    /\ todo.caller = "merge_dir"
    /\ loc.op = "merge"
    /\ out.result \in Returns
    /\ pc' = "merge_dir_215"
    /\ UNCHANGED <<fs, loc, out, made, walk>>
    /\ UNCHANGED original

\* --------------------------------------------------------------- split_dir
\* Path.suffix: the text from the last dot of the name on, unless that dot opens
\* or closes the name.
Suffix(name) ==
    IF Len(name) >= 2 /\ name[Len(name)] # "" /\ (Len(name) >= 3 \/ name[1] # "")
    THEN name[Len(name)] ELSE ""

\* glob("**/*"), line 141: everything below dirpath, at any depth.
Below(dirpath, path) ==
    /\ Len(path) > Len(dirpath)
    /\ SubSeq(path, 1, Len(dirpath)) = dirpath

\* Line 142.
IgnoreFilepaths(ignore_files) == {Resolve(filename) : filename \in ignore_files}

\* collect_files, lines 141-155: the regular files below dirpath that are not
\* ignored, do not end in .prt and are not named config.ini.
collect_files(dirpath, ignore_files) ==
    {path \in DOMAIN files \cup DOMAIN inis :
        /\ Below(dirpath, path)
        /\ Resolve(path) \notin IgnoreFilepaths(ignore_files)
        /\ Suffix(NameOf(path)) # "prt"
        /\ NameOf(path) # ConfigName}

SplitDirCall(dirpath, ignore_files, parts, chunks_size, remove, compress) ==
    /\ pc = "idle"
    /\ pc' = "split_dir_181"
    /\ loc' = [op |-> "split_dir", dirpath |-> dirpath, ignore_files |-> ignore_files,
               parts |-> parts, chunks_size |-> chunks_size, remove |-> remove,
               compress |-> compress]
    /\ out' = NoOut
    /\ UNCHANGED <<fs, made, walk>>
    /\ UNCHANGED original

\* Lines 181-185: the list is collected once, before any file is split, in the
\* order glob yields the files.
SplitDirStart ==
    /\ pc = "split_dir_181"
    /\ IF ~IsDir(loc.dirpath)
       THEN /\ Ends("Exit")
            /\ UNCHANGED <<todo, trail>>
       ELSE /\ pc' = "split_dir_186"
            /\ out' = out
            /\ \E filepath_list \in Orders(collect_files(loc.dirpath, loc.ignore_files)) :
                  /\ todo' = [caller |-> "split_dir", rest |-> filepath_list,
                              remove |-> loc.remove, parts |-> loc.parts,
                              chunks_size |-> loc.chunks_size, compress |-> loc.compress]
                  /\ trail' = [NoTrail EXCEPT !.listed = filepath_list]
    /\ UNCHANGED <<fs, loc, made, queue, final_dirs>>
    /\ UNCHANGED original

\* Lines 186-193: split_file is called on the next file of the list.
SplitDirNext ==
    /\ pc = "split_dir_186"
    /\ IF todo.rest = <<>>
       THEN /\ Ends("Finish")
            /\ loc' = [op |-> "split_dir"]
            /\ todo' = todo
       ELSE /\ pc' = "split_88"
            /\ out' = NoOut
            /\ loc' = [op |-> "split_file", filepath |-> Head(todo.rest),
                       parts |-> todo.parts, chunk_size |-> todo.chunks_size,
                       remove |-> todo.remove, compress |-> todo.compress]
            /\ todo' = [todo EXCEPT !.rest = Tail(@)]
    /\ UNCHANGED <<fs, made, queue, final_dirs, trail>>
    /\ UNCHANGED original

\* Line 194: split_file returned, the loop goes on.
SplitDirResume ==
    /\ pc = "done"
    /\ todo.caller = "split_dir"
    /\ loc.op = "split_file"
    /\ out.result \in Returns
    /\ pc' = "split_dir_186"
    /\ UNCHANGED <<fs, loc, out, made, walk>>
    /\ UNCHANGED original

\* ----------------------------------------------------- single-file runs
\* One source file a.txt of any content up to MaxLen bytes; split_file and merge
\* are run one after the other with any arguments, on the file, on its sibling
\* directory and on the working directory. A part of a complete split directory
\* may be altered once between two runs; an altered directory is merged, not
\* split over again.
SrcName == <<"a", "txt">>
SrcPath == <<SrcName>>
SubPath == <<Basename(SrcName)>>

Untampered == \A d \in DOMAIN made : ~made[d].tampered

Init ==
    /\ dirs = {}
    /\ \E bytes \in Contents : files = [p \in {SrcPath} |-> bytes]
    /\ inis = <<>>
    /\ pc = "idle"
    /\ loc = NoLoc
    /\ out = NoOut
    /\ made = <<>>
    /\ queue = <<>>
    /\ final_dirs = <<>>
    /\ todo = NoTodo
    /\ trail = NoTrail
    /\ original = files

Next ==
    \/ \E filepath \in {SrcPath, SubPath}, parts \in 0..MaxParts, chunk_size \in 0..MaxChunk,
          remove \in BOOLEAN, compress \in BOOLEAN :
          Untampered /\ SplitCall(filepath, parts, chunk_size, remove, compress)
    \/ SplitPlan
    \/ RemoveDirUnlink
    \/ RemoveDirRmdir
    \/ SplitMkdir
    \/ SplitWritePart
    \/ SplitWriteConfig
    \/ SplitRemove
    \/ \E dirpath \in {SubPath, SrcPath, Root}, remove \in BOOLEAN : MergeCall(dirpath, remove)
    \/ MergeRead
    \/ MergeUnlink
    \/ MergePart
    \/ MergeVerify
    \/ MergeFinish
    \/ \E path \in DOMAIN files, bytes \in Contents : Tamper(path, bytes)
    \/ Return

Spec == Init /\ [][Next]_vars

\* ------------------------------------------------------------------ walks
\* collect_dirs over every tree of directories A, A/B, B, B/A below the working
\* directory, with config.ini in any of them, and every short ignore list.
MaxIgnore == 2

DirA == <<"A">>
DirB == <<"B">>
WalkDirs == {<<DirA>>, <<DirA, DirB>>, <<DirB>>, <<DirB, DirA>>}
IgnoreSpellings ==
    WalkDirs \cup {Root, <<Dot, DirA>>, <<DirA, DotDot, DirB>>, <<DirB, DirA, DotDot>>,
                   <<DirA, DirB, Dot>>}

InitWalk ==
    /\ dirs \in {D \in SUBSET WalkDirs : \A d \in D : Parent(d) = Root \/ Parent(d) \in D}
    /\ \E marked \in SUBSET (dirs \cup {Root}) :
          inis = [path \in {Append(d, ConfigName) : d \in marked} |-> <<>>]
    /\ files = <<>>
    /\ pc = "idle"
    /\ loc = NoLoc
    /\ out = NoOut
    /\ made = <<>>
    /\ queue = <<>>
    /\ final_dirs = <<>>
    /\ todo = NoTodo
    /\ trail = NoTrail
    /\ original = files

NextWalk ==
    \/ \E dirpath \in {Root, <<DirA>>},
          ignore_dirs \in {I \in SUBSET IgnoreSpellings : Cardinality(I) <= MaxIgnore} :
          CollectCall(dirpath, ignore_dirs)
    \/ CollectStep
    \/ CollectReturn
    \/ Return

SpecWalk == InitWalk /\ [][NextWalk]_vars

\* ------------------------------------------------------------- bulk runs
\* Two files of one directory, each split into one part, compressed or not, and
\* merge_dir over the directory. The second content is itself a zlib stream.
BulkFiles == {<<<<"a", "txt">>>>, <<<<"b", "txt">>>>}
BulkContents == {<<0>>, zlib_compress(<<>>)}

InitBulk ==
    /\ dirs = {}
    /\ files \in [BulkFiles -> BulkContents]
    /\ inis = <<>>
    /\ pc = "idle"
    /\ loc = NoLoc
    /\ out = NoOut
    /\ made = <<>>
    /\ queue = <<>>
    /\ final_dirs = <<>>
    /\ todo = NoTodo
    /\ trail = NoTrail
    /\ original = files

NextBulk ==
    \/ \E filepath \in BulkFiles, remove \in BOOLEAN, compress \in BOOLEAN :
          SplitCall(filepath, 1, 0, remove, compress)
    \/ SplitPlan
    \/ RemoveDirUnlink
    \/ RemoveDirRmdir
    \/ SplitMkdir
    \/ SplitWritePart
    \/ SplitWriteConfig
    \/ SplitRemove
    \/ \E ignore_dirs \in {{}, {<<<<"a">>>>}}, remove \in BOOLEAN :
          MergeDirCall(Root, ignore_dirs, remove)
    \/ MergeDirStart
    \/ CollectStep
    \/ CollectReturn
    \/ MergeDirNext
    \/ MergeRead
    \/ MergeUnlink
    \/ MergePart
    \/ MergeVerify
    \/ MergeFinish
    \/ MergeDirResume
    \/ Return

SpecBulk == InitBulk /\ [][NextBulk]_vars

\* ----------------------------------------------------------- bulk splits
\* split_dir over the working directory, which holds any of a.txt, a.bin (the
\* same stem), a (no suffix) and b.txt, each of two bytes, with any ignore list
\* of one spelling at most and any valid choice of parts and chunk size.
SplitDirNames == {<<"a", "txt">>, <<"a", "bin">>, <<"a">>, <<"b", "txt">>}
SplitDirContents == {<<0, 1>>}
SplitDirIgnores == {{}, {<<<<"a", "txt">>>>}, {<<Dot, <<"a">>>>}}
SplitDirArgs == {<<1, 0>>, <<2, 0>>, <<0, 1>>}

InitSplitDir ==
    /\ dirs = {}
    /\ \E names \in SUBSET SplitDirNames :
          files \in [{<<name>> : name \in names} -> SplitDirContents]
    /\ inis = <<>>
    /\ pc = "idle"
    /\ loc = NoLoc
    /\ out = NoOut
    /\ made = <<>>
    /\ queue = <<>>
    /\ final_dirs = <<>>
    /\ todo = NoTodo
    /\ trail = NoTrail
    /\ original = files

NextSplitDir ==
    \/ \E dirpath \in {Root, <<<<"a">>>>}, ignore_files \in SplitDirIgnores,
          args \in SplitDirArgs, remove \in BOOLEAN, compress \in BOOLEAN :
          SplitDirCall(dirpath, ignore_files, args[1], args[2], remove, compress)
    \/ SplitDirStart
    \/ SplitDirNext
    \/ SplitPlan
    \/ RemoveDirUnlink
    \/ RemoveDirRmdir
    \/ SplitMkdir
    \/ SplitWritePart
    \/ SplitWriteConfig
    \/ SplitRemove
    \/ SplitDirResume
    \/ Return

SpecSplitDir == InitSplitDir /\ [][NextSplitDir]_vars

\* ====================================================================
\* Properties
\* ====================================================================
Min(a, b) == IF a < b THEN a ELSE b
Max(a, b) == IF a > b THEN a ELSE b

SplitDone == pc = "done" /\ loc.op = "split_file"
MergeDone == pc = "done" /\ loc.op = "merge"

\* The bytes that the parts listed under keys 0 .. upto-1 of a configuration
\* stand for, each part decompressed when compressed is set.
RECURSIVE CatParts(_, _, _, _)
CatParts(dirpath, config, upto, compressed) ==
    IF upto = 0 THEN <<>>
    ELSE LET buffer == files[Append(dirpath, config.PARTS[ToString(upto - 1)])]
         IN  CatParts(dirpath, config, upto - 1, compressed)
                 \o (IF compressed THEN zlib_decompress(buffer) ELSE buffer)

SaysCompressed(config) == config.OPERATION.compress = <<"True">>

\* C1: merging an unaltered split directory made by split_file ends with the
\* hash verified and with the original bytes (and so the original hash) at
\* parent/<original filename>, whatever the content, the arguments and compress.
RoundTrip ==
    (MergeDone /\ loc.origin.split /\ ~loc.origin.tampered) =>
        LET target == Append(Parent(loc.dirpath), loc.origin.name)
        IN  /\ out.result = "Finish"
            /\ out.verified
            /\ target \in DOMAIN files
            /\ files[target] = loc.origin.src
            /\ compute_hash(files[target]) = loc.config.ORIGINAL.hash

\* The same for the directories whose parts were compressed.
RoundTripCompressed ==
    (MergeDone /\ loc.origin.split /\ ~loc.origin.tampered /\ "config" \in DOMAIN loc
        /\ SaysCompressed(loc.config)) =>
        LET target == Append(Parent(loc.dirpath), loc.origin.name)
        IN  /\ out.result = "Finish"
            /\ out.verified
            /\ target \in DOMAIN files
            /\ files[target] = loc.origin.src

\* C3: merging a split directory one part of which was altered ends in failure
\* (no "Hash verification succeeded", no "Finish") and leaves the reconstructed
\* file at the target path.
TamperDetected ==
    (MergeDone /\ loc.origin.split /\ loc.origin.tampered) =>
        /\ out.result # "Finish"
        /\ ~out.verified
        /\ Append(Parent(loc.dirpath), loc.origin.name) \in DOMAIN files

ExactlyOne(parts, chunk_size) ==
    \/ parts > 0 /\ chunk_size = 0
    \/ parts = 0 /\ chunk_size > 0

\* C4: split_file on an existing file rejects the call, and changes no file or
\* directory, unless exactly one of parts and chunk_size is positive and the
\* other is zero.
InvalidArgumentsRejected ==
    [][(pc = "split_88" /\ loc.filepath \in DOMAIN files
            /\ ~ExactlyOne(loc.parts, loc.chunk_size))
        => (pc' = "done" /\ out'.result = "Rejected" /\ fs' = fs)]_vars

\* The sizes of the part files of the split that just finished, by index.
PartSizes == [i \in 0..(loc.parts - 1) |->
                 Len(files[Append(loc.subdir, PartName(NameOf(loc.filepath), i))])]
PartFiles == {Append(loc.subdir, PartName(NameOf(loc.filepath), i)) : i \in 0..(loc.parts - 1)}
RECURSIVE SumSizes(_, _)
SumSizes(sizes, upto) == IF upto = 0 THEN 0 ELSE sizes[upto - 1] + SumSizes(sizes, upto - 1)

GivenParts == IF loc.given.parts > 0 THEN loc.given.parts
              ELSE (Len(made[loc.subdir].src) + loc.given.chunk_size - 1) \div loc.given.chunk_size
GivenChunk == IF loc.given.parts > 0
              THEN (Len(made[loc.subdir].src) + loc.given.parts - 1) \div loc.given.parts
              ELSE loc.given.chunk_size

UncompressedSplitDone ==
    SplitDone /\ out.result = "Finish" /\ ~loc.compress /\ ExactlyOne(loc.given.parts, loc.given.chunk_size)

\* C5 as stated: an uncompressed split writes the resolved number of parts, whose
\* sizes sum to the file size, and every part but the last holds exactly
\* chunk_size bytes.
PartSizesAllButLastFull ==
    UncompressedSplitDone =>
        /\ Children(loc.subdir) \cap DOMAIN files = PartFiles
        /\ loc.parts = GivenParts
        /\ SumSizes(PartSizes, loc.parts) = Len(made[loc.subdir].src)
        /\ \A i \in 0..(loc.parts - 2) : PartSizes[i] = GivenChunk

\* C5 as amended: an uncompressed split writes the resolved number of parts, whose
\* sizes sum to the file size, and part i holds the chunk_size bytes at offset
\* i * chunk_size, or as many of them as the file still has there (none when the
\* file ends before that offset).
PartSizesFollowOffsets ==
    UncompressedSplitDone =>
        /\ Children(loc.subdir) \cap DOMAIN files = PartFiles
        /\ loc.parts = GivenParts
        /\ SumSizes(PartSizes, loc.parts) = Len(made[loc.subdir].src)
        /\ \A i \in 0..(loc.parts - 1) :
              PartSizes[i] = Min(GivenChunk, Max(0, Len(made[loc.subdir].src) - i * GivenChunk))

\* A part before the last one came out shorter than chunk_size.
ShortPartBeforeLast ==
    /\ UncompressedSplitDone
    /\ \E i \in 0..(loc.parts - 2) : PartSizes[i] < GivenChunk

\* C7: a split_file run that passed its checks finishes and leaves in the
\* sibling directory exactly its own part files and its own config.ini, also
\* when the directory held the parts and config.ini of an earlier run.
ResplitLeavesOnlySecondRun ==
    (SplitDone /\ "given" \in DOMAIN loc) =>
        /\ out.result = "Finish"
        /\ Children(loc.subdir) = PartFiles \cup {Append(loc.subdir, ConfigName)}
        /\ inis[Append(loc.subdir, ConfigName)] = loc.config
        /\ DOMAIN loc.config.PARTS = {"parts"} \cup {ToString(i) : i \in 0..(loc.parts - 1)}
        /\ loc.config.PARTS.parts = <<ToString(loc.parts)>>
        /\ \A i \in 0..(loc.parts - 1) :
              loc.config.PARTS[ToString(i)] = PartName(NameOf(loc.filepath), i)
        /\ loc.compress => \A path \in PartFiles : zlib_valid(files[path])
        /\ CatParts(loc.subdir, loc.config, loc.parts, loc.compress) = made[loc.subdir].src

\* A re-split finished over a directory that held more entries than it wrote.
ResplitWithFewerParts ==
    /\ SplitDone
    /\ "given" \in DOMAIN loc
    /\ out.result = "Finish"
    /\ loc.stale > loc.parts + 1

\* C8: split_file on a path that is no existing file, and merge on a path that
\* is no directory or on a directory without config.ini, end at once and leave
\* every file and directory as it was.
ErrorsBeforeDestruction ==
    [][(\/ pc = "split_88" /\ ~IsFile(loc.filepath)
        \/ pc = "merge_159" /\ ~IsDir(loc.dirpath)
        \/ pc = "merge_159" /\ ~(Append(loc.dirpath, ConfigName) \in DOMAIN inis))
        => (/\ pc' = "done"
            /\ out'.result \in {"Rejected", "FileNotFoundError", "IsADirectoryError",
                                "NotDir", "KeyError"}
            /\ fs' = fs)]_vars

\* split_file failed on a missing source while its sibling directory exists.
SplitOfMissingFileFailed ==
    /\ SplitDone
    /\ out.result = "FileNotFoundError"
    /\ loc.filepath = SrcPath
    /\ SubPath \in dirs
    /\ Children(SubPath) # {}

\* A configuration's parts all exist and decode to the bytes it describes.
DescriptorComplete(dirpath) ==
    LET config == inis[Append(dirpath, ConfigName)]
        parts == ParseInt(config.PARTS.parts)
    IN  /\ \A i \in 0..(parts - 1) :
              /\ ToString(i) \in DOMAIN config.PARTS
              /\ Append(dirpath, config.PARTS[ToString(i)]) \in DOMAIN files
        /\ compute_hash(CatParts(dirpath, config, parts, SaysCompressed(config)))
               = config.ORIGINAL.hash

\* C9: in every state of a split_file run, a sibling directory that holds a
\* config.ini holds every part the config.ini lists, complete.
DescriptorWrittenLast ==
    (loc.op = "split_file" /\ pc # "idle") =>
        \A d \in dirs : Append(d, ConfigName) \in DOMAIN inis => DescriptorComplete(d)

\* A merge whose loop read every part, seen before its directory is removed.
MergeReadAll ==
    /\ loc.op = "merge"
    /\ \/ pc = "done" /\ out.result = "HashFailed"
       \/ pc = "merge_202" /\ ~loc.remove
       \/ pc = "remove_dir" /\ loc.entries = Children(loc.dirpath)

\* C10: after a merge read all its parts, the target holds the parts named under
\* keys 0 .. parts-1, in that order, each decompressed when the configuration
\* says the parts are compressed, and nothing else.
MergeInDescriptorOrder ==
    MergeReadAll =>
        /\ loc.filepath \in DOMAIN files
        /\ files[loc.filepath] =
               CatParts(loc.dirpath, loc.config, ParseInt(loc.config.PARTS.parts),
                        SaysCompressed(loc.config))

IsPrefix(a, d) == Len(a) <= Len(d) /\ SubSeq(d, 1, Len(a)) = a
\* The directories on the path from root down to d, both included.
PathFrom(root, d) == {SubSeq(d, 1, n) : n \in Len(root)..Len(d)}
Range(seq) == {seq[i] : i \in DOMAIN seq}

\* The directories collect_dirs is to return: below root, holding config.ini, with
\* no ignored directory on the path from root and no config.ini above them.
ExpectedDirs(root, ignore_dirs) ==
    {d \in {x \in dirs \cup {Root} : IsPrefix(root, x)} :
        /\ Append(d, ConfigName) \in DOMAIN inis
        /\ \A a \in PathFrom(root, d) : Resolve(a) \notin {Resolve(i) : i \in ignore_dirs}
        /\ \A a \in PathFrom(root, d) \ {d} : ~(Append(a, ConfigName) \in DOMAIN inis)}

CollectDone == pc = "done" /\ loc.op = "collect_dirs"

\* C6: collect_dirs returns exactly the directories below root that hold
\* config.ini, have no ignored directory on their path from root and no
\* config.ini above them; it never dequeues a directory below a returned one and
\* never enqueues a child of an ignored one.
TraversalPolicy ==
    CollectDone =>
        /\ Range(final_dirs) = ExpectedDirs(loc.dirpath, loc.ignore_dirs)
        /\ Len(final_dirs) = Cardinality(Range(final_dirs))
        /\ \A d \in trail.dequeued :
              \A a \in PathFrom(loc.dirpath, d) \ {d} : a \notin Range(final_dirs)
        /\ \A d \in trail.enqueued \ {loc.dirpath} :
              Resolve(Parent(d)) \notin {Resolve(i) : i \in loc.ignore_dirs}

\* A walk returned A and not A/B, which holds config.ini too, and skipped the
\* ignored B, spelled other than the walk spells it, with its child B/A.
StoppedAtMarkerAndIgnored ==
    /\ CollectDone
    /\ loc.dirpath = Root
    /\ final_dirs = <<<<DirA>>>>
    /\ Append(<<DirA, DirB>>, ConfigName) \in DOMAIN inis
    /\ Append(<<DirB, DirA>>, ConfigName) \in DOMAIN inis
    /\ loc.ignore_dirs = {<<DirA, DotDot, DirB>>}

\* merge_dir has ended: its loop ran out, or a merge ended the process.
MergeDirEnded ==
    /\ pc = "done"
    /\ todo.caller = "merge_dir"
    /\ loc.op = "merge_dir" \/ out.result \notin Returns

\* C2: when a merge of merge_dir's list fails its hash verification, merge is
\* still run on every directory of the list.
BulkIsolation ==
    (MergeDirEnded /\ out.result = "HashFailed") =>
        Range(trail.listed) \subseteq Range(trail.merged)

\* merge_dir ran to the end of its list.
BulkCompletes ==
    (MergeDirEnded /\ loc.op = "merge_dir") => trail.merged = trail.listed

\* split_dir ran to the end of its list.
SplitDirCompleted ==
    /\ pc = "done"
    /\ loc.op = "split_dir"
    /\ todo.caller = "split_dir"
    /\ out.result = "Finish"

\* The directory that holds the parts of a file: a sibling of the file whose
\* config.ini names the file and whose listed parts are all there.
SplitDirOf(filepath) ==
    {d \in dirs :
        /\ Parent(d) = Parent(filepath)
        /\ Append(d, ConfigName) \in DOMAIN inis
        /\ inis[Append(d, ConfigName)].ORIGINAL.filename = NameOf(filepath)
        /\ DescriptorComplete(d)}

\* C11: after split_dir ran to the end of its list, every file collect_files
\* returned has a split directory of its own, whose config.ini names that file
\* and whose parts are the file's; no file's split removed or overwrote what the
\* split of another file of the list had written.
SiblingExclusivity ==
    SplitDirCompleted =>
        \A filepath \in Range(trail.listed) : SplitDirOf(filepath) # {}

\* split_dir ran to the end of a list of files no two of which share a stem and
\* each of which has a suffix.
DistinctStems(paths) ==
    /\ \A f \in paths : Suffixes(NameOf(f)) # <<>>
    /\ \A f, g \in paths : f # g => Basename(NameOf(f)) # Basename(NameOf(g))

SplitDirOfDistinctStems ==
    (SplitDirCompleted /\ DistinctStems(Range(trail.listed))) =>
        \A filepath \in Range(trail.listed) : SplitDirOf(filepath) # {}

\* The bytes a complete split directory of the source file stands for: the
\* directory holds a config.ini that names the file, every part it lists, and the
\* parts decode to bytes of the recorded hash.
Recoverable ==
    {CatParts(d, inis[Append(d, ConfigName)], ParseInt(inis[Append(d, ConfigName)].PARTS.parts),
              SaysCompressed(inis[Append(d, ConfigName)])) :
        d \in {x \in dirs : /\ Append(x, ConfigName) \in DOMAIN inis
                             /\ inis[Append(x, ConfigName)].ORIGINAL.filename = SrcName
                             /\ DescriptorComplete(x)}}

\* The source file's bytes are there, as the file or as a complete split directory.
Available(bytes) ==
    \/ SrcPath \in DOMAIN files /\ files[SrcPath] = bytes
    \/ bytes \in Recoverable

\* C12: in every state of every sequence of split_file and merge calls on one
\* file, no part altered from outside, the bytes the file first held are there
\* as the file or as a complete split directory.
NoLoss ==
    Untampered => Available(original[SrcPath])

\* The two removals come last: split_file unlinks its source only when the
\* sibling directory is complete and stands for the source's bytes, and merge
\* removes nothing of the part directory before the target's hash was found equal
\* to the recorded one.
RemovalsOrdered ==
    [][/\ (loc.op = "split_file" /\ loc.filepath \in DOMAIN files
            /\ ~(loc.filepath \in DOMAIN files')) =>
               /\ pc = "split_145"
               /\ Append(loc.subdir, ConfigName) \in DOMAIN inis
               /\ DescriptorComplete(loc.subdir)
               /\ CatParts(loc.subdir, loc.config, loc.parts, loc.compress) = files[loc.filepath]
       /\ (loc.op = "merge" /\ "filepath" \in DOMAIN loc
            /\ \E path \in {loc.dirpath} \cup Children(loc.dirpath) : ~Exists(path)') =>
               /\ out.verified
               /\ loc.remove
               /\ loc.filepath \in DOMAIN files
               /\ compute_hash(files[loc.filepath]) = loc.config.ORIGINAL.hash]_vars

====
